---- MODULE Spec2Model ----
(***************************************************************************)
(* Model of sgpt/app.py: the chat-session controller (chat_mode), the      *)
(* single-shot path (main) and the collaborators they drive: the chat      *)
(* cache (session store), the streaming completion client, the prompt      *)
(* builder and os.system.                                                  *)
(*                                                                         *)
(* A string is a sequence of words; "" and None are both the empty         *)
(* sequence where the code only tests truthiness (`if not prompt`).        *)
(***************************************************************************)
EXTENDS Naturals, Sequences, FiniteSets, TLC

\* ------------------------------------------------------------------ bounds
MaxInvocations == 2   \* processes started one after the other
MaxRequests == 2      \* completion requests per invocation
MaxFragments == 2     \* fragments per response stream
MaxHistory == 4       \* turns kept per session

\* ----------------------------------------------------------------- strings
None == "None"

\* str.endswith(suffix)
EndsWith(s, suffix) ==
  /\ Len(s) >= Len(suffix)
  /\ SubSeq(s, Len(s) - Len(suffix) + 1, Len(s)) = suffix

\* The literals "###\nCommand:" and "###\nCode:" of lines 68-69.
CommandSuffix == <<"###", "Command:">>
CodeSuffix == <<"###", "Code:">>

\* ------------------------------------------------------------------ inputs
ChatIds == {"abc"}
ChatArgs == ChatIds \cup {None}
\* What the caller gives as PROMPT (<<>>: no prompt).
PromptArgs == {<<>>, <<"continue">>}
\* What $EDITOR returns.
EditedPrompts == {<<"continue">>}
\* Lines the user types at the prompts of lines 82 and 113.
UserInputs == {<<"e">>, <<"continue">>}
\* Lines the user types at the prompt of line 105.
ChoiceInputs == UserInputs \cup {<<"execute">>, <<"E">>}
\* Text fragments the completion service may stream as the k-th of a response.
FragmentsAt(k) ==
  IF k = 1 THEN {<<"ls">>}
  ELSE IF k = 2 THEN {<<"-la">>, <<"###", "Command:">>}
  ELSE {<<"/tmp">>}

\* ------------------------------------------------ make_prompt (collaborator)
\* make_prompt.initial(prompt, shell, code): the set of results the builder may
\* give. With both flags it is one of the two framings.
Initial(text, sh, cd) ==
  (IF sh THEN {<<"[initial]">> \o text \o CommandSuffix} ELSE {})
  \cup (IF cd THEN {<<"[initial]">> \o text \o CodeSuffix} ELSE {})
  \cup (IF ~sh /\ ~cd THEN {<<"[initial]">> \o text} ELSE {})

\* make_prompt.chat_mode(prompt, shell, code), likewise.
ChatFraming(text, sh, cd) ==
  (IF sh THEN {<<"[chat]">> \o text \o CommandSuffix} ELSE {})
  \cup (IF cd THEN {<<"[chat]">> \o text \o CodeSuffix} ELSE {})
  \cup (IF ~sh /\ ~cd THEN {<<"[chat]">> \o text} ELSE {})

\* ------------------------------------------------- chat cache (collaborator)
\* OpenAIClient.chat_cache.exists(chat_id) on a sound cache: at least one turn
\* is stored under the id.
Exists(cache, id) == cache[id] # <<>>

\* What exists(chat_id) answers when entries may be damaged: an entry that is
\* there counts, whether or not it holds a message.
ReportsExists(cache, bad, id) == Exists(cache, id) \/ id \in bad

\* OpenAIClient.chat_cache.get_messages(chat_id): each stored turn as one
\* string, "<role>: <content>".
GetMessages(cache, id) ==
  [i \in 1..Len(cache[id]) |-> <<cache[id][i].role, ":">> \o cache[id][i].content]

CacheOnRequest_Eager(history, messages) == history \o messages

\* What the cache holds once get_completion has been called and before the
\* stream is drained: what it held.
CacheOnRequest(history, messages) == history

\* What the cache does when a stream of a request with a chat id is drained:
\* the request's messages, then the assistant's response, after the stored turns.
AppendTurns(history, messages, response) ==
  history \o messages \o <<[role |-> "assistant", content |-> response]>>

\* What the completion client has produced once its fragments are put end to end.
RECURSIVE Flatten(_)
Flatten(fragments) ==
  IF fragments = <<>> THEN <<>>
  ELSE Head(fragments) \o Flatten(Tail(fragments))

\* ---------------------------------------------------- app.py, pure pieces
IsShellChat_LastMessage(chat_history) ==
  EndsWith(chat_history[Len(chat_history)], CommandSuffix)

\* chat_mode, line 68
IsShellChat(chat_history) == EndsWith(chat_history[1], CommandSuffix)

\* chat_mode, line 69
IsCodeChat(chat_history) == EndsWith(chat_history[1], CodeSuffix)

ModeConflict_ShellOnly(is_shell_chat, is_code_chat, sh, cd) ==
  is_shell_chat /\ cd

\* chat_mode, lines 70-77: the two `raise BadParameter` conditions.
ModeConflict(is_shell_chat, is_code_chat, sh, cd) ==
  (is_shell_chat /\ cd) \/ (is_code_chat /\ sh)

AdoptedFlags_KeepCaller(is_shell_chat, is_code_chat, sh, cd) ==
  [shell |-> sh, code |-> cd]

\* chat_mode, line 79: shell, code = is_shell_chat, is_code_chat
AdoptedFlags(is_shell_chat, is_code_chat, sh, cd) ==
  [shell |-> is_shell_chat, code |-> is_code_chat]

Outbound_AssistantRole(content) ==
  <<[role |-> "assistant", content |-> content]>>

Outbound_Twice(content) ==
  <<[role |-> "user", content |-> content],
    [role |-> "user", content |-> content]>>

\* lines 91 and 146: the messages argument of get_completion
Outbound(content) == <<[role |-> "user", content |-> content]>>

Accumulate_Overwrite(full, word) == word

\* lines 100 and 156: full_completion += word
Accumulate(full, word) == full \o word

Display_Prepend(out, word) == <<word>> \o out

\* lines 99 and 155: typer.secho(word, ..., nl=False)
Display(out, word) == Append(out, word)

IsExecute_AnyCase(input) ==
  input \in {<<"execute">>, <<"e">>, <<"Execute">>, <<"E">>}

\* chat_mode, line 108
IsExecute(input) == input = <<"execute">> \/ input = <<"e">>

ExecuteCommand_TypedLine(full, input) == input

\* chat_mode, line 110 and main, line 159: the argument of os.system
ExecuteCommand(full, input) == full

ConfirmGate_ShellOnly(sh, cd) == sh

MissingPrompt_EditorOnly(main_prompt, editor) == main_prompt = <<>> /\ editor

\* main, line 140: `not prompt and not editor`
MissingPrompt(main_prompt, editor) == main_prompt = <<>> /\ ~editor

\* chat_mode, line 68: chat_history[0] of an empty list raises IndexError.
IndexRaises_Never(chat_history) == FALSE

IndexRaises(chat_history) == Len(chat_history) = 0

ExecuteChosen_AnyMode(sh, input) == IsExecute(input)

\* chat_mode, lines 107-108: `if shell:` and, inside it, the comparison
ExecuteChosen(sh, input) == sh /\ IsExecute(input)

\* main, line 158: `not code and shell`, evaluated before typer.confirm
ConfirmGate(sh, cd) == ~cd /\ sh

\* The mode a stored history puts a session in (lines 68-69 read together).
DerivedMode(chat_history) ==
  IF IsShellChat(chat_history) THEN "shell"
  ELSE IF IsCodeChat(chat_history) THEN "code" ELSE "plain"

FirstFraming_AlwaysInitial(ex, text, sh, cd) == Initial(text, sh, cd)

\* chat_mode, lines 86-87: chat_mode framing if the session existed, else initial
FirstFraming(ex, text, sh, cd) ==
  IF ex THEN ChatFraming(text, sh, cd) ELSE Initial(text, sh, cd)

\* ------------------------------------------------------------------- state
VARIABLES
  store,            \* chat cache: chat id -> stored turns, oldest first
  invocations,      \* processes started so far
  pc,               \* where the running invocation is
  chat,             \* main's `chat` / chat_mode's `chat_id`
  prompt,           \* the local `prompt`
  shell, code,      \* the locals `shell`, `code`
  flags,            \* --shell / --code as the caller gave them
  exists,           \* chat_mode's `exists`
  chat_history,     \* chat_mode's `chat_history`
  full_completion,  \* the local `full_completion`
  stream,           \* the completion generator: none, open, exhausted, failed
  yielded,          \* fragments the generator has yielded, in order
  displayed,        \* fragments written to the terminal for this response
  calls,            \* get_completion calls of this invocation
  request,          \* arguments of the last get_completion call
  reads,            \* typer.prompt / typer.confirm reads of this invocation
  lastInput,        \* the line read last
  shellRuns,        \* arguments of the os.system calls of this invocation
  error,            \* how the invocation ended, if it ended by an exception
  errChat,          \* the chat id the BadParameter message names
  args,             \* main's `prompt` (after line 135), `editor`, `list_chat`
  damaged           \* chat ids whose cache entry exists but holds no message

vars == <<store, invocations, pc, chat, prompt, shell, code, flags, exists,
          chat_history, full_completion, stream, yielded, displayed, calls,
          request, reads, lastInput, shellRuns, error, errChat, args,
          damaged>>

NoRequest == [messages |-> <<>>, chat_id |-> None]

NoArgs == [prompt |-> <<>>, editor |-> FALSE, list_chat |-> FALSE]

Init ==
  /\ store = [id \in ChatIds |-> <<>>]
  /\ invocations = 0
  /\ pc = "idle"
  /\ chat = None
  /\ prompt = <<>>
  /\ shell = FALSE /\ code = FALSE
  /\ flags = [shell |-> FALSE, code |-> FALSE]
  /\ exists = FALSE
  /\ chat_history = <<>>
  /\ full_completion = <<>>
  /\ stream = "none"
  /\ yielded = <<>>
  /\ displayed = <<>>
  /\ calls = 0
  /\ request = NoRequest
  /\ reads = 0
  /\ lastInput = <<>>
  /\ shellRuns = <<>>
  /\ error = "none"
  /\ errChat = None
  /\ args = NoArgs
  /\ damaged = {}

\* A fresh process: every local starts unset.
Fresh ==
  /\ exists' = FALSE
  /\ chat_history' = <<>>
  /\ full_completion' = <<>>
  /\ stream' = "none"
  /\ yielded' = <<>>
  /\ displayed' = <<>>
  /\ calls' = 0
  /\ request' = NoRequest
  /\ reads' = 0
  /\ lastInput' = <<>>
  /\ shellRuns' = <<>>
  /\ errChat' = None

\* The invocation ends with exception e (or normally, "none").
End(e) == pc' = "Ended" /\ error' = e

\* -------------------------------------------------------------------- main
\* main, lines 130-143, up to the call of chat_mode or of get_completion.
Main(p, c, list_chat, sh, cd, editor) ==
  /\ pc = "idle"
  /\ invocations < MaxInvocations
  /\ invocations' = invocations + 1
  /\ Fresh
  /\ chat' = c
  /\ shell' = sh /\ code' = cd
  /\ flags' = [shell |-> sh, code |-> cd]
  /\ UNCHANGED <<store, damaged>>
  /\ IF list_chat
       THEN /\ prompt' = p
            /\ args' = [prompt |-> p, editor |-> editor, list_chat |-> TRUE]
            /\ End("none")
       ELSE \E edited \in (IF editor THEN EditedPrompts ELSE {p}) :
              /\ args' = [prompt |-> edited, editor |-> editor,
                          list_chat |-> FALSE]
              /\ IF c # None
                   THEN prompt' = edited /\ pc' = "chat_entry" /\ error' = "none"
                   ELSE IF MissingPrompt(edited, editor)
                     THEN prompt' = edited /\ End("MissingParameter")
                     ELSE /\ prompt' \in Initial(edited, sh, cd)
                          /\ pc' = "single_request"
                          /\ error' = "none"

\* --------------------------------------------------------------- chat_mode
\* chat_mode, lines 60-79: look the session up, check the flags against it.
ChatResume ==
  /\ pc = "chat_entry"
  /\ exists' = ReportsExists(store, damaged, chat)
  /\ IF ReportsExists(store, damaged, chat)
       THEN LET history == GetMessages(store, chat)
                \* an empty list, were it indexed without raising, would
                \* end with neither sentinel
                is_shell_chat == history # <<>> /\ IsShellChat(history)
                is_code_chat == history # <<>> /\ IsCodeChat(history)
                adopted == AdoptedFlags(is_shell_chat, is_code_chat, shell, code)
            IN /\ chat_history' = history
               /\ IF IndexRaises(history)
                    THEN /\ End("IndexError")
                         /\ UNCHANGED <<shell, code, errChat>>
                    ELSE IF ModeConflict(is_shell_chat, is_code_chat, shell, code)
                    THEN /\ End("BadParameter")
                         /\ errChat' = chat
                         /\ UNCHANGED <<shell, code>>
                    ELSE /\ shell' = adopted.shell
                         /\ code' = adopted.code
                         /\ pc' = "chat_prompt"
                         /\ UNCHANGED <<error, errChat>>
       ELSE /\ pc' = "chat_prompt"
            /\ UNCHANGED <<chat_history, shell, code, error, errChat>>
  /\ UNCHANGED <<store, invocations, chat, prompt, flags, full_completion,
                 stream, yielded, displayed, calls, request, reads, lastInput,
                 shellRuns>>
  /\ UNCHANGED <<args, damaged>>

\* chat_mode, lines 81-87: read the prompt if none was given, frame it.
ChatPrompt ==
  /\ pc = "chat_prompt"
  /\ \E input \in (IF prompt = <<>> THEN UserInputs ELSE {prompt}) :
       /\ IF prompt = <<>>
            THEN reads' = reads + 1 /\ lastInput' = input
            ELSE UNCHANGED <<reads, lastInput>>
       /\ prompt' \in FirstFraming(exists, input, shell, code)
  /\ pc' = "chat_request"
  /\ UNCHANGED <<store, invocations, chat, shell, code, flags, exists,
                 chat_history, full_completion, stream, yielded, displayed,
                 calls, request, shellRuns, error, errChat>>
  /\ UNCHANGED <<args, damaged>>

ChatRequest_WithHistory ==
  /\ pc = "chat_request"
  /\ calls < MaxRequests
  /\ Len(store[chat]) + 2 <= MaxHistory
  /\ calls' = calls + 1
  /\ request' = [messages |-> store[chat] \o Outbound(prompt), chat_id |-> chat]
  /\ stream' = "open"
  /\ yielded' = <<>>
  /\ displayed' = <<>>
  /\ full_completion' = <<>>
  /\ pc' = "chat_stream"
  /\ store' = [store EXCEPT ![chat] = CacheOnRequest(@, Outbound(prompt))]
  /\ UNCHANGED <<invocations, chat, prompt, shell, code, flags, exists,
                 chat_history, reads, lastInput, shellRuns, error, errChat>>
  /\ UNCHANGED <<args, damaged>>

\* chat_mode, lines 90-97: get_completion is called and hands back a stream.
ChatRequest ==
  /\ pc = "chat_request"
  /\ calls < MaxRequests
  /\ Len(store[chat]) + 2 <= MaxHistory
  /\ calls' = calls + 1
  /\ request' = [messages |-> Outbound(prompt), chat_id |-> chat]
  /\ stream' = "open"
  /\ yielded' = <<>>
  /\ displayed' = <<>>
  /\ full_completion' = <<>>
  /\ pc' = "chat_stream"
  /\ store' = [store EXCEPT ![chat] = CacheOnRequest(@, Outbound(prompt))]
  /\ UNCHANGED <<invocations, chat, prompt, shell, code, flags, exists,
                 chat_history, reads, lastInput, shellRuns, error, errChat>>
  /\ UNCHANGED <<args, damaged>>

\* The same call, failing (network, authentication): the error propagates.
ChatRequestFail ==
  /\ pc = "chat_request"
  /\ calls < MaxRequests
  /\ Len(store[chat]) + 2 <= MaxHistory
  /\ calls' = calls + 1
  /\ request' = [messages |-> Outbound(prompt), chat_id |-> chat]
  /\ stream' = "failed"
  /\ End("CollaboratorError")
  /\ UNCHANGED <<store, invocations, chat, prompt, shell, code, flags, exists,
                 chat_history, full_completion, yielded, displayed, reads,
                 lastInput, shellRuns, errChat>>
  /\ UNCHANGED <<args, damaged>>

\* chat_mode, lines 98-100: one turn of `for word in completion`.
ChatStreamWord ==
  /\ pc = "chat_stream"
  /\ Len(yielded) < MaxFragments
  /\ \E word \in FragmentsAt(Len(yielded) + 1) :
       /\ yielded' = Append(yielded, word)
       /\ displayed' = Display(displayed, word)
       /\ full_completion' = Accumulate(full_completion, word)
  /\ UNCHANGED <<store, invocations, pc, chat, prompt, shell, code, flags,
                 exists, chat_history, stream, calls, request, reads,
                 lastInput, shellRuns, error, errChat>>
  /\ UNCHANGED <<args, damaged>>

\* The stream is exhausted: the chat cache stores the turn, the loop ends
\* (line 101) and the controller goes on to the prompt of lines 103-105.
ChatStreamEnd ==
  /\ pc = "chat_stream"
  /\ stream' = "exhausted"
  /\ store' = [store EXCEPT ![request.chat_id] =
                 AppendTurns(@, request.messages, Flatten(yielded))]
  /\ pc' = "chat_choice"
  /\ UNCHANGED <<invocations, chat, prompt, shell, code, flags, exists,
                 chat_history, full_completion, yielded, displayed, calls,
                 request, reads, lastInput, shellRuns, error, errChat>>
  /\ UNCHANGED <<args, damaged>>

\* The stream raises while it is consumed.
ChatStreamFail_Retry ==
  /\ pc = "chat_stream"
  /\ stream' = "failed"
  /\ pc' = "chat_request"
  /\ UNCHANGED <<store, invocations, chat, prompt, shell, code, flags, exists,
                 chat_history, full_completion, yielded, displayed, calls,
                 request, reads, lastInput, shellRuns, error, errChat>>
  /\ UNCHANGED <<args, damaged>>

ChatStreamFail ==
  /\ pc = "chat_stream"
  /\ stream' = "failed"
  /\ End("CollaboratorError")
  /\ UNCHANGED <<store, invocations, chat, prompt, shell, code, flags, exists,
                 chat_history, full_completion, yielded, displayed, calls,
                 request, reads, lastInput, shellRuns, errChat>>
  /\ UNCHANGED <<args, damaged>>

\* As ChatChoice, with a word that leaves the loop and ends the invocation.
ChatChoice_Returns ==
  /\ pc = "chat_choice"
  /\ \E input \in ChoiceInputs :
       /\ reads' = reads + 1
       /\ lastInput' = input
       /\ IF input = <<"continue">>
            THEN IF MissingPrompt(args.prompt, args.editor)
                   THEN prompt' = args.prompt /\ End("MissingParameter")
                   ELSE /\ prompt' \in Initial(args.prompt, flags.shell,
                                               flags.code)
                        /\ pc' = "single_request"
                        /\ error' = error
            ELSE /\ error' = error
                 /\ IF ExecuteChosen(shell, input)
                      THEN pc' = "chat_execute" /\ prompt' = input
                      ELSE /\ prompt' \in ChatFraming(input, shell, code)
                           /\ pc' = "chat_request"
  /\ UNCHANGED <<store, invocations, chat, shell, code, flags, exists,
                 chat_history, full_completion, stream, yielded, displayed,
                 calls, request, shellRuns, errChat, args, damaged>>

ChatChoice_QuitWord ==
  /\ pc = "chat_choice"
  /\ \E input \in ChoiceInputs :
       /\ reads' = reads + 1
       /\ lastInput' = input
       /\ IF input = <<"continue">>
            THEN End("none") /\ prompt' = input
            ELSE /\ error' = error
                 /\ IF ExecuteChosen(shell, input)
                      THEN pc' = "chat_execute" /\ prompt' = input
                      ELSE /\ prompt' \in ChatFraming(input, shell, code)
                           /\ pc' = "chat_request"
  /\ UNCHANGED <<store, invocations, chat, shell, code, flags, exists,
                 chat_history, full_completion, stream, yielded, displayed,
                 calls, request, shellRuns, errChat, args, damaged>>

\* chat_mode, lines 103-108 and 116: read the line after a response.
ChatChoice ==
  /\ pc = "chat_choice"
  /\ \E input \in ChoiceInputs :
       /\ reads' = reads + 1
       /\ lastInput' = input
       /\ IF ExecuteChosen(shell, input)
            THEN pc' = "chat_execute" /\ prompt' = input
            ELSE /\ prompt' \in ChatFraming(input, shell, code)
                 /\ pc' = "chat_request"
  /\ UNCHANGED <<store, invocations, chat, shell, code, flags, exists,
                 chat_history, full_completion, stream, yielded, displayed,
                 calls, request, shellRuns, error, errChat>>
  /\ UNCHANGED <<args, damaged>>

\* chat_mode, lines 109-112: os.system(full_completion)
ChatExecute ==
  /\ pc = "chat_execute"
  /\ shellRuns' = Append(shellRuns, ExecuteCommand(full_completion, prompt))
  /\ pc' = "chat_fresh_prompt"
  /\ UNCHANGED <<store, invocations, chat, prompt, shell, code, flags, exists,
                 chat_history, full_completion, stream, yielded, displayed,
                 calls, request, reads, lastInput, error, errChat>>
  /\ UNCHANGED <<args, damaged>>

\* chat_mode, lines 113 and 116: the prompt read after an execution.
ChatFreshPrompt ==
  /\ pc = "chat_fresh_prompt"
  /\ \E input \in UserInputs :
       /\ reads' = reads + 1
       /\ lastInput' = input
       /\ prompt' \in ChatFraming(input, shell, code)
  /\ pc' = "chat_request"
  /\ UNCHANGED <<store, invocations, chat, shell, code, flags, exists,
                 chat_history, full_completion, stream, yielded, displayed,
                 calls, request, shellRuns, error, errChat>>
  /\ UNCHANGED <<args, damaged>>

\* ------------------------------------------------------- main, single shot
\* main, lines 145-153: get_completion without a session.
SingleRequest ==
  /\ pc = "single_request"
  /\ calls' = calls + 1
  /\ request' = [messages |-> Outbound(prompt), chat_id |-> chat]
  /\ stream' = "open"
  /\ yielded' = <<>>
  /\ displayed' = <<>>
  /\ full_completion' = <<>>
  /\ pc' = "single_stream"
  /\ UNCHANGED <<store, invocations, chat, prompt, shell, code, flags, exists,
                 chat_history, reads, lastInput, shellRuns, error, errChat>>
  /\ UNCHANGED <<args, damaged>>

SingleRequestFail ==
  /\ pc = "single_request"
  /\ calls' = calls + 1
  /\ request' = [messages |-> Outbound(prompt), chat_id |-> chat]
  /\ stream' = "failed"
  /\ End("CollaboratorError")
  /\ UNCHANGED <<store, invocations, chat, prompt, shell, code, flags, exists,
                 chat_history, full_completion, yielded, displayed, reads,
                 lastInput, shellRuns, errChat>>
  /\ UNCHANGED <<args, damaged>>

\* main, lines 154-156
SingleStreamWord ==
  /\ pc = "single_stream"
  /\ Len(yielded) < MaxFragments
  /\ \E word \in FragmentsAt(Len(yielded) + 1) :
       /\ yielded' = Append(yielded, word)
       /\ displayed' = Display(displayed, word)
       /\ full_completion' = Accumulate(full_completion, word)
  /\ UNCHANGED <<store, invocations, pc, chat, prompt, shell, code, flags,
                 exists, chat_history, stream, calls, request, reads,
                 lastInput, shellRuns, error, errChat>>
  /\ UNCHANGED <<args, damaged>>

\* The stream is exhausted (no chat id: nothing is stored); lines 157-158 up
\* to the confirmation.
SingleStreamEnd ==
  /\ pc = "single_stream"
  /\ stream' = "exhausted"
  /\ IF ConfirmGate(shell, code)
       THEN pc' = "single_confirm" /\ UNCHANGED error
       ELSE End("none")
  /\ UNCHANGED <<store, invocations, chat, prompt, shell, code, flags, exists,
                 chat_history, full_completion, yielded, displayed, calls,
                 request, reads, lastInput, shellRuns, errChat>>
  /\ UNCHANGED <<args, damaged>>

SingleStreamFail ==
  /\ pc = "single_stream"
  /\ stream' = "failed"
  /\ End("CollaboratorError")
  /\ UNCHANGED <<store, invocations, chat, prompt, shell, code, flags, exists,
                 chat_history, full_completion, yielded, displayed, calls,
                 request, reads, lastInput, shellRuns, errChat>>
  /\ UNCHANGED <<args, damaged>>

\* main, line 158: typer.confirm("Execute shell command?")
SingleConfirm ==
  /\ pc = "single_confirm"
  /\ \E answer \in {<<"y">>, <<"n">>} :
       /\ reads' = reads + 1
       /\ lastInput' = answer
       /\ IF answer = <<"y">>
            THEN pc' = "single_execute" /\ UNCHANGED error
            ELSE End("none")
  /\ UNCHANGED <<store, invocations, chat, prompt, shell, code, flags, exists,
                 chat_history, full_completion, stream, yielded, displayed,
                 calls, request, shellRuns, errChat>>
  /\ UNCHANGED <<args, damaged>>

\* main, line 159: os.system(full_completion), then main returns.
SingleExecute ==
  /\ pc = "single_execute"
  /\ shellRuns' = Append(shellRuns, ExecuteCommand(full_completion, lastInput))
  /\ End("none")
  /\ UNCHANGED <<store, invocations, chat, prompt, shell, code, flags, exists,
                 chat_history, full_completion, stream, yielded, displayed,
                 calls, request, reads, lastInput, errChat>>
  /\ UNCHANGED <<args, damaged>>

\* The process is interrupted from outside (Ctrl-C), wherever it is.
Interrupt ==
  /\ pc \notin {"idle", "Ended"}
  /\ End("Interrupted")
  /\ UNCHANGED <<store, invocations, chat, prompt, shell, code, flags, exists,
                 chat_history, full_completion, stream, yielded, displayed,
                 calls, request, reads, lastInput, shellRuns, errChat>>
  /\ UNCHANGED <<args, damaged>>

\* The ended process is gone, and its locals with it; the chat cache stays.
Exit ==
  /\ pc = "Ended"
  /\ pc' = "idle"
  /\ Fresh
  /\ chat' = None
  /\ prompt' = <<>>
  /\ shell' = FALSE /\ code' = FALSE
  /\ flags' = [shell |-> FALSE, code |-> FALSE]
  /\ error' = "none"
  /\ args' = NoArgs
  /\ UNCHANGED <<store, invocations, damaged>>

Next ==
  \/ \E p \in PromptArgs, c \in ChatArgs, list_chat \in BOOLEAN,
        sh \in BOOLEAN, cd \in BOOLEAN, editor \in BOOLEAN :
       Main(p, c, list_chat, sh, cd, editor)
  \/ ChatResume
  \/ ChatPrompt
  \/ ChatRequest
  \/ ChatRequestFail
  \/ ChatStreamWord
  \/ ChatStreamEnd
  \/ ChatStreamFail
  \/ ChatChoice
  \/ ChatExecute
  \/ ChatFreshPrompt
  \/ SingleRequest
  \/ SingleRequestFail
  \/ SingleStreamWord
  \/ SingleStreamEnd
  \/ SingleStreamFail
  \/ SingleConfirm
  \/ SingleExecute
  \/ Interrupt
  \/ Exit

Spec == Init /\ [][Next]_vars

\* Between two invocations something outside the program (a truncated write,
\* an editor) leaves the cache entry of a session in place with no message.
Damage(id) ==
  /\ pc = "idle"
  /\ id \notin damaged
  /\ damaged' = damaged \cup {id}
  /\ store' = [store EXCEPT ![id] = <<>>]
  /\ UNCHANGED <<invocations, pc, chat, prompt, shell, code, flags, exists,
                 chat_history, full_completion, stream, yielded, displayed,
                 calls, request, reads, lastInput, shellRuns, error, errChat,
                 args>>

NextCorrupt ==
  \/ Next
  \/ \E id \in ChatIds : Damage(id)

\* The program with a cache that can be damaged from outside.
SpecCorrupt == Init /\ [][NextCorrupt]_vars

TypeOK ==
  /\ pc \in {"idle", "chat_entry", "chat_prompt", "chat_request", "chat_stream",
             "chat_choice", "chat_execute", "chat_fresh_prompt",
             "single_request", "single_stream", "single_confirm",
             "single_execute", "Ended"}
  /\ chat \in ChatArgs
  /\ stream \in {"none", "open", "exhausted", "failed"}
  /\ error \in {"none", "BadParameter", "MissingParameter", "IndexError",
                "CollaboratorError", "Interrupted"}
  /\ damaged \subseteq ChatIds
  /\ \A id \in ChatIds : Len(store[id]) <= MaxHistory

\* ================================================================== claims
StreamPcs == {"chat_stream", "single_stream"}

\* The caller's flags contradict the mode the resumed session was created in.
Contradicts ==
  \/ flags.shell /\ DerivedMode(chat_history) = "code"
  \/ flags.code /\ DerivedMode(chat_history) = "shell"

\* C1: a chat invocation on an existing session whose stored mode is code
\* while --shell is requested, or shell while --code is requested, has ended
\* with BadParameter (the spec's ModeConflict) naming that chat id, and has
\* issued no completion call.
C1_ModeConflictBeforeAnyCall ==
  (exists /\ Contradicts) =>
    /\ pc = "Ended"
    /\ error = "BadParameter"
    /\ errChat = chat
    /\ calls = 0
    /\ stream = "none"

C1_Witness ==
  /\ exists
  /\ flags.code /\ ~flags.shell
  /\ DerivedMode(chat_history) = "shell"
  /\ error = "BadParameter"
  /\ errChat = "abc"

\* C2: once a session exists, no step of any invocation changes the mode
\* derived from its stored messages, and the session stays in existence.
C2_ModeImmutable ==
  [][\A id \in ChatIds :
       Exists(store, id) =>
         /\ Exists(store', id)
         /\ DerivedMode(GetMessages(store', id))
              = DerivedMode(GetMessages(store, id))]_vars

\* A shell session resumed by a later invocation, holding two cycles, the
\* last response ending like a shell prompt's sentinel, after an execution.
C2_Witness ==
  /\ exists
  /\ Len(store["abc"]) = 4
  /\ DerivedMode(GetMessages(store, "abc")) = "shell"
  /\ EndsWith(store["abc"][2].content, CommandSuffix)
  /\ pc = "chat_choice"

\* C3: in a resumed invocation that passed the conflict check, the effective
\* flags are the stored mode's whatever the caller gave, and the execute
\* choice is taken exactly when the stored mode is shell and the line read is
\* an execute word.
C3_StoredModeGoverns ==
  [][/\ (exists' /\ error' # "BadParameter") =>
          /\ shell' = (DerivedMode(chat_history') = "shell")
          /\ code' = (DerivedMode(chat_history') = "code")
          /\ (shellRuns' # <<>> => DerivedMode(chat_history') = "shell")
     /\ (exists /\ pc = "chat_choice" /\ pc' # "Ended") =>
          ((pc' = "chat_execute")
              <=> (DerivedMode(chat_history) = "shell" /\ IsExecute(lastInput')))
    ]_vars

\* --shell against a plain session: "e" at the prompt is sent as a turn.
C3_Witness ==
  /\ exists
  /\ flags.shell
  /\ DerivedMode(chat_history) = "plain"
  /\ lastInput = <<"e">>
  /\ pc = "chat_request"
  /\ calls = 1
  /\ prompt \in ChatFraming(<<"e">>, FALSE, FALSE)

\* C4: in a shell-mode chat, an execute word read at the choice prompt leads
\* to exactly one os.system call, on the whole text the stream just yielded
\* and before anything else is read; the line read next is framed as a chat
\* prompt and sent as the next request, never taken as a choice; no other step
\* of a chat invocation runs a command.
C4_ExecuteThenFreshPrompt ==
  [][/\ (pc = "chat_choice" /\ shell /\ pc' # "Ended" /\ IsExecute(lastInput')) =>
          /\ pc' = "chat_execute"
          /\ shellRuns' = shellRuns
          /\ calls' = calls
     /\ (pc = "chat_execute" /\ pc' # "Ended") =>
          /\ pc' = "chat_fresh_prompt"
          /\ shellRuns' = Append(shellRuns, Flatten(yielded))
          /\ reads' = reads
          /\ calls' = calls
     /\ (pc = "chat_fresh_prompt" /\ pc' # "Ended") =>
          /\ pc' = "chat_request"
          /\ reads' = reads + 1
          /\ shellRuns' = shellRuns
          /\ prompt' \in ChatFraming(lastInput', shell, code)
     /\ (pc = "chat_request" /\ pc' = "chat_stream") =>
          /\ request'.messages = <<[role |-> "user", content |-> prompt]>>
          /\ shellRuns' = shellRuns
     /\ (chat # None /\ pc # "chat_execute" /\ pc' # "idle") =>
          shellRuns' = shellRuns
    ]_vars

\* "ls -la" was executed, then "e" was typed at the fresh prompt and is on
\* its way to the model as the next turn.
C4_Witness ==
  /\ pc = "chat_stream"
  /\ calls = 2
  /\ shellRuns = << <<"ls", "-la">> >>
  /\ lastInput = <<"e">>
  /\ request.messages[1].content \in ChatFraming(<<"e">>, shell, code)

\* C5: a single-shot invocation runs at most one command, and only with
\* --shell and without --code, after the stream is exhausted and the user
\* answered yes; after "no", or without the gate, nothing is run and nothing
\* is asked, and the invocation has ended.
C5_SingleShotExecutionGate ==
  (chat = None /\ pc # "idle") =>
    /\ Len(shellRuns) <= 1
    /\ (shellRuns # <<>> \/ pc = "single_execute") =>
          /\ flags.shell /\ ~flags.code
          /\ stream = "exhausted"
          /\ lastInput = <<"y">>
          /\ reads = 1
    /\ (shellRuns # <<>> => pc = "Ended")
    /\ (lastInput = <<"n">> => shellRuns = <<>> /\ pc = "Ended")
    /\ (~(flags.shell /\ ~flags.code) => shellRuns = <<>> /\ reads = 0)
    /\ (pc = "single_confirm" => stream = "exhausted")

C5_Witness ==
  /\ chat = None
  /\ pc = "Ended"
  /\ error = "none"
  /\ shellRuns = << <<"ls", "-la">> >>

\* C6: once a response stream is exhausted, the fragments it yielded, put
\* end to end in yield order, are the full_completion buffer; in a chat that
\* buffer is the content of the assistant turn stored last, and it is what
\* os.system was given when the response was executed.
C6_StreamingFaithful ==
  /\ (stream = "exhausted") => full_completion = Flatten(yielded)
  /\ (stream = "exhausted" /\ chat # None) =>
        /\ store[chat] # <<>>
        /\ store[chat][Len(store[chat])]
             = [role |-> "assistant", content |-> full_completion]
        /\ store[chat][Len(store[chat])].content = Flatten(yielded)
  /\ (pc = "chat_fresh_prompt") =>
        shellRuns[Len(shellRuns)] = Flatten(yielded)
  /\ (chat = None /\ shellRuns # <<>>) => shellRuns[1] = Flatten(yielded)

C6_Witness ==
  /\ pc = "chat_fresh_prompt"
  /\ yielded = << <<"ls">>, <<"-la">> >>
  /\ store["abc"][2].content = <<"ls", "-la">>
  /\ shellRuns = << <<"ls", "-la">> >>

\* C7: what is displayed of a response is, at every moment, the fragments
\* yielded so far in yield order; while a stream is being consumed nothing is
\* read from the user and no command is run; and the choice prompt and the
\* execute confirmation are entered only from the stream, on its exhaustion.
C7_OrderedAndDrained ==
  [][/\ (pc' \in StreamPcs \/ stream' = "exhausted") => displayed' = yielded'
     /\ (pc \in StreamPcs) =>
          /\ reads' = reads
          /\ lastInput' = lastInput
          /\ shellRuns' = shellRuns
     /\ (pc' \in {"chat_choice", "single_confirm"} /\ pc' # pc) =>
          /\ pc \in StreamPcs
          /\ stream = "open" /\ stream' = "exhausted"
     /\ (reads' > reads \/ Len(shellRuns') > Len(shellRuns)) =>
          (calls = 0 \/ stream = "exhausted")
    ]_vars

C7_Witness ==
  /\ pc = "single_confirm"
  /\ displayed = << <<"ls">>, <<"###", "Command:">> >>
  /\ reads = 0

\* C8: the stored history of a session changes only in the step that
\* exhausts the response stream of a request for that session; a failure of
\* the completion client, at the call or in the stream, leaves every stored
\* history as it was.
C8_NoPartialTranscript ==
  [][/\ (store' # store) =>
          /\ pc = "chat_stream"
          /\ stream = "open" /\ stream' = "exhausted"
          /\ \A id \in ChatIds \ {chat} : store'[id] = store[id]
     /\ (stream' = "failed") => store' = store
     /\ (pc \in StreamPcs /\ pc' = "Ended") => store' = store
    ]_vars

\* A new session's first request failed after one fragment: no session.
C8_Witness ==
  /\ chat = "abc"
  /\ ~exists
  /\ error = "CollaboratorError"
  /\ yielded = << <<"ls">> >>
  /\ store["abc"] = <<>>

\* C9: when an invocation resumes a plain session with a prompt given (no
\* prompt read) and its first stream is exhausted, the stored history is the
\* history found at the start, then one user turn holding the chat-framed
\* prompt, then one assistant turn holding the response.
C9_OneUserThenOneAssistant ==
  (/\ exists
   /\ DerivedMode(chat_history) = "plain"
   /\ pc = "chat_choice"
   /\ calls = 1
   /\ reads = 0) =>
    LET n == Len(chat_history) IN
      /\ Len(store[chat]) = n + 2
      /\ SubSeq(GetMessages(store, chat), 1, n) = chat_history
      /\ store[chat][n + 1].role = "user"
      /\ store[chat][n + 1].content = prompt
      /\ prompt \in ChatFraming(<<"continue">>, FALSE, FALSE)
      /\ store[chat][n + 2] = [role |-> "assistant", content |-> full_completion]

C9_Witness ==
  /\ exists
  /\ DerivedMode(chat_history) = "plain"
  /\ pc = "chat_choice"
  /\ calls = 1
  /\ reads = 0
  /\ Len(chat_history) = 2
  /\ Len(store["abc"]) = 4

\* A request/stream cycle on session id completes in this step.
CycleCompletes(id) ==
  /\ pc = "chat_stream" /\ pc' = "chat_choice"
  /\ chat = id

\* C10 as stated: each completed cycle on an existing plain session lengthens
\* what get_messages returns by exactly one, and no step shortens it.
C10_AsStated ==
  [][\A id \in ChatIds :
       /\ (/\ CycleCompletes(id)
           /\ Exists(store, id)
           /\ DerivedMode(GetMessages(store, id)) = "plain") =>
            Len(GetMessages(store', id)) = Len(GetMessages(store, id)) + 1
       /\ Len(GetMessages(store', id)) >= Len(GetMessages(store, id))
    ]_vars

\* C10, amended: each completed cycle on a plain session lengthens what
\* get_messages returns by exactly two (the user turn and the assistant
\* turn); every other step leaves the length as it is.
C10_TwoTurnsPerCycle ==
  [][\A id \in ChatIds :
       /\ (CycleCompletes(id) /\ DerivedMode(GetMessages(store', id)) = "plain") =>
            Len(GetMessages(store', id)) = Len(GetMessages(store, id)) + 2
       /\ ~CycleCompletes(id) =>
            Len(GetMessages(store', id)) = Len(GetMessages(store, id))
    ]_vars

C10_Witness ==
  /\ pc = "chat_choice"
  /\ exists
  /\ DerivedMode(GetMessages(store, "abc")) = "plain"
  /\ Len(chat_history) = 2
  /\ Len(GetMessages(store, "abc")) = 4

\* Where a chat invocation is once lines 60-79 let it through.
ChatLoopPcs ==
  {"chat_prompt", "chat_request", "chat_stream", "chat_choice", "chat_execute",
   "chat_fresh_prompt"}

\* C11: a chat invocation past the resume checks ends only by an interrupt
\* or by a failure of the completion client; the line read at the choice
\* prompt leads to the next request (directly, or through the execution and
\* the fresh prompt), the only way out of the request position is the call
\* itself, and the process never exits from inside the loop.
C11_LoopEndsOnlyFromOutside ==
  [][/\ (pc \in ChatLoopPcs /\ pc' = "Ended") =>
          error' \in {"Interrupted", "CollaboratorError"}
     /\ (pc \in ChatLoopPcs) => pc' # "idle"
     /\ (pc = "chat_choice" /\ pc' # "Ended") =>
          pc' \in {"chat_request", "chat_execute"}
     /\ (pc = "chat_execute" /\ pc' # "Ended") => pc' = "chat_fresh_prompt"
     /\ (pc = "chat_fresh_prompt" /\ pc' # "Ended") => pc' = "chat_request"
     /\ (pc = "chat_request" /\ pc' # "Ended") =>
          pc' = "chat_stream" /\ calls' = calls + 1
    ]_vars

\* Two cycles done, the second after "continue" at the choice prompt, and the
\* controller is at the choice prompt again.
C11_Witness ==
  /\ chat = "abc"
  /\ calls = 2
  /\ pc = "chat_choice"
  /\ Len(store["abc"]) = 4
  /\ store["abc"][3].content \in ChatFraming(<<"continue">>, shell, code)
  /\ error = "none"

\* C12 (under SpecCorrupt): resuming a session that the cache reports as
\* existing but that holds no message fails at line 68 with IndexError (the
\* spec's CorruptSession): the invocation has ended with it, no completion
\* call was issued, nothing was read and nothing was run.
C12_EmptySessionIsFatal ==
  (exists /\ chat \in damaged) =>
    /\ chat_history = <<>>
    /\ pc = "Ended"
    /\ error = "IndexError"
    /\ calls = 0
    /\ stream = "none"
    /\ reads = 0
    /\ shellRuns = <<>>

\* An entry emptied from outside is resumed by the second invocation.
C12_Witness ==
  /\ invocations = 2
  /\ chat = "abc"
  /\ "abc" \in damaged
  /\ exists
  /\ error = "IndexError"

\* The running invocation was given no prompt and no --editor (and is not a
\* --list-chat listing).
NoPromptGiven ==
  /\ pc # "idle"
  /\ args.prompt = <<>>
  /\ ~args.editor
  /\ ~args.list_chat

\* C13 as stated: with no prompt and no editor, chat id or not, no completion
\* call is issued, nothing is run, and the invocation, when it ends by itself,
\* ends with MissingParameter (the spec's UsageError).
C13_AsStated ==
  NoPromptGiven =>
    /\ calls = 0
    /\ shellRuns = <<>>
    /\ (pc = "Ended" /\ error # "Interrupted") => error = "MissingParameter"

\* C13, amended: with no prompt, no editor and no chat id the invocation has
\* ended with MissingParameter before any call, read or execution; with a
\* chat id it never ends with MissingParameter, and a completion call is
\* issued only after a prompt was read from the user; MissingParameter is
\* raised in no other case.
C13_UsageErrorWithoutChatId ==
  /\ (NoPromptGiven /\ chat = None) =>
        /\ pc = "Ended"
        /\ error = "MissingParameter"
        /\ calls = 0
        /\ stream = "none"
        /\ reads = 0
        /\ shellRuns = <<>>
  /\ (NoPromptGiven /\ chat # None) =>
        /\ error # "MissingParameter"
        /\ (calls > 0 => reads >= 1)
  /\ (error = "MissingParameter") => (NoPromptGiven /\ chat = None)

C13_Witness ==
  /\ NoPromptGiven
  /\ chat = None
  /\ flags.shell
  /\ pc = "Ended"
  /\ error = "MissingParameter"

\* C14 as stated: in every reachable state of a running invocation (new
\* session, resumed session, single-shot) the shell and code indicators are
\* never both set.
C14_ModeIsExclusive ==
  (pc \notin {"idle", "Ended"}) => ~(shell /\ code)

\* C15: a failure of the completion collaborator, at the call or while the
\* stream is consumed, ends the invocation with the collaborator's error
\* without a read, an execution or a change of the store in that step, and the
\* only step after it is the process exit: no further call, read or run.
C15_CollaboratorFailureIsTerminal ==
  [][ /\ (stream # "failed" /\ stream' = "failed") =>
            /\ pc \in {"chat_request", "chat_stream",
                       "single_request", "single_stream"}
            /\ pc' = "Ended"
            /\ error' = "CollaboratorError"
            /\ reads' = reads
            /\ shellRuns' = shellRuns
            /\ store' = store
      /\ (stream = "failed") =>
            /\ pc = "Ended"
            /\ error = "CollaboratorError"
            /\ pc' = "idle"
            /\ calls' = 0
            /\ reads' = 0
            /\ shellRuns' = <<>>
            /\ store' = store ]_vars

\* The second call of a shell chat fails while its stream is consumed.
C15_Witness ==
  /\ chat = "abc"
  /\ shell
  /\ calls = 2
  /\ stream = "failed"
  /\ yielded # <<>>
  /\ pc = "Ended"
  /\ error = "CollaboratorError"

\* The two lines that choose execution.
ExecuteWords == {<<"execute">>, <<"e">>}

C17_NoExecutionOutsideShellMode ==
  (chat # None /\ ~shell) =>
    /\ shellRuns = <<>>
    /\ pc \notin {"chat_execute", "chat_fresh_prompt"}
    /\ (pc = "chat_request" /\ calls >= 1) =>
          /\ reads >= calls
          /\ prompt \in ChatFraming(lastInput, FALSE, code)
    /\ (pc = "chat_stream" /\ calls >= 2) =>
          /\ request.chat_id = chat
          /\ request.messages[1].content \in ChatFraming(lastInput, FALSE, code)

\* "execute" was typed in a code chat: nothing was run, the second request
\* carries the framed line.
C17_Witness ==
  /\ chat = "abc"
  /\ code /\ ~shell
  /\ lastInput = <<"execute">>
  /\ calls = 2
  /\ pc = "chat_stream"
  /\ request.messages[1].content = <<"[chat]", "execute">> \o CodeSuffix
  /\ shellRuns = <<>>

\* A plain session resumed with --shell: the flag is dropped and "e" is sent.
C17_WitnessResumed ==
  /\ chat = "abc"
  /\ exists
  /\ flags.shell
  /\ ~shell /\ ~code
  /\ lastInput = <<"e">>
  /\ calls = 1
  /\ pc = "chat_request"
  /\ shellRuns = <<>>

\* The raw text behind the first request of a chat invocation: the prompt
\* handed to the program, or the line read when there was none.
FirstText == IF args.prompt # <<>> THEN args.prompt ELSE lastInput

\* C18: the first request of a chat invocation carries the initial framing
\* when the session did not exist at the start of the invocation and the
\* chat-mode framing when it did; every later request, the one after an
\* execution included, carries the chat-mode framing of the line last read,
\* with the mode the invocation fixed.
C18_FramingPerTurn ==
  [][ /\ (chat # None /\ calls = 0 /\ calls' = 1) =>
            LET content == request'.messages[1].content
            IN  IF exists
                  THEN /\ content \in ChatFraming(FirstText, shell, code)
                       /\ content \notin Initial(FirstText, shell, code)
                  ELSE /\ content \in Initial(FirstText, shell, code)
                       /\ content \notin ChatFraming(FirstText, shell, code)
      /\ (chat # None /\ calls >= 1 /\ calls' = calls + 1) =>
            /\ request'.messages[1].content
                 \in ChatFraming(lastInput, shell, code)
            /\ shell' = shell /\ code' = code
      /\ (pc = "chat_fresh_prompt" /\ pc' = "chat_request") =>
            prompt' \in ChatFraming(lastInput', shell, code) ]_vars

\* New shell session: the first request was initial-framed, the command was
\* executed, and the request after it carries the chat framing.
C18_Witness ==
  /\ chat = "abc"
  /\ ~exists
  /\ shell /\ ~code
  /\ Len(shellRuns) = 1
  /\ calls = 2
  /\ pc = "chat_stream"
  /\ store["abc"] # <<>>
  /\ store["abc"][1].content \in Initial(args.prompt, TRUE, FALSE)
  /\ request.messages[1].content = <<"[chat]", "continue">> \o CommandSuffix

\* Resumed session: the first request carries the chat framing.
C18_WitnessResumed ==
  /\ chat = "abc"
  /\ exists
  /\ calls = 1
  /\ pc = "chat_stream"
  /\ request.messages[1].content \in ChatFraming(FirstText, shell, code)

\* C19: every completion call carries exactly one message, of role user, whose
\* content is the current framed prompt, together with the chat id of the
\* invocation; no stored turn and no earlier response is among the messages.
C19_SingleUserMessagePerRequest ==
  [][ (calls' = calls + 1) =>
        /\ request'.messages = <<[role |-> "user", content |-> prompt]>>
        /\ request'.chat_id = chat
        /\ prompt \in Initial(FirstText, shell, code)
                      \cup ChatFraming(FirstText, shell, code)
                      \cup ChatFraming(lastInput, shell, code)
        /\ prompt' = prompt ]_vars

\* The second call of a session that already holds the first exchange.
C19_Witness ==
  /\ chat = "abc"
  /\ calls = 2
  /\ pc = "chat_stream"
  /\ Len(store["abc"]) = 2
  /\ store["abc"][2].role = "assistant"
  /\ request = [messages |-> <<[role |-> "user", content |-> prompt]>>,
                chat_id |-> "abc"]
  /\ prompt \in ChatFraming(lastInput, shell, code)

SinglePcs ==
  {"single_request", "single_stream", "single_confirm", "single_execute"}

\* C20: an invocation given a chat id never stands in the single-shot path
\* and never raises MissingParameter; its completion calls are issued by the
\* chat loop only, and it runs a command only from the execute branch of the
\* chat loop, after the word was chosen in shell mode.
C20_ChatNeverFallsThrough ==
  [][ (chat' # None) =>
        /\ pc' \notin SinglePcs
        /\ error' # "MissingParameter"
        /\ (calls' = calls + 1) => pc = "chat_request"
        /\ (Len(shellRuns') > Len(shellRuns)) =>
              /\ pc = "chat_execute"
              /\ shell
              /\ lastInput \in ExecuteWords ]_vars

\* A shell chat started without a prompt has run a command from the loop and
\* waits for the next prompt.
C20_Witness ==
  /\ chat = "abc"
  /\ args.prompt = <<>> /\ ~args.editor
  /\ flags.shell
  /\ Len(shellRuns) = 1
  /\ pc = "chat_fresh_prompt"
  /\ calls = 1

====
